---- MODULE Spec2Model ----
(***************************************************************************)
(* A model of openai_batch_manager: the chunker (utils.split_jsonl_file),  *)
(* the four retried client operations of BatchManager, the per-unit        *)
(* lifecycle (process_batch), the sequential orchestrator                  *)
(* (process_batches), clean-up and the CLI driver (run_batch_processing).  *)
(*                                                                         *)
(* One behaviour is one call of an entry point of the package: the CLI     *)
(* `process` command, or a direct call of a public function by a host      *)
(* program.  The remote API, the filesystem and the host are the           *)
(* environment: their answers are chosen nondeterministically.             *)
(***************************************************************************)
EXTENDS Integers, Sequences, FiniteSets, TLC

\* ------------------------------------------------------------------ bounds
MaxLines == 25    \* lines of the input file
MaxChunk == 10    \* chunk sizes tried
MaxUnits == 2     \* chunk files handed to process_batches
MaxPolls == 2     \* non-terminal status snapshots one job may report
MaxLost  == 1     \* create-batch responses lost after the server acted, per run
MaxRows  == 2     \* rows after the header in a CSV file given to csv_to_jsonl
MaxCells == 2     \* cells in one CSV row
MaxFileLines == 3 \* lines of a file given to validate_jsonl
MaxFairUnits == 1 \* chunk files handed to process_batches where progress is checked

\* ------------------------------------------------------- program constants
UploadAttempts   == 5   \* stop_after_attempt(5) on upload_file
CreateAttempts   == 5   \* stop_after_attempt(5) on create_batch
StatusAttempts   == 5   \* stop_after_attempt(5) on get_batch_status
DownloadAttempts == 3   \* stop_after_attempt(3) on download_batch_results

VARIABLES
    entry,            \* the entry point this behaviour calls
    os_defined,       \* whether the name `os` resolves in batch_manager's globals
    pc,               \* position of the single thread of control
    infile,           \* the input file: lines, or the rows of a CSV file
    chunk_size,       \* split_jsonl_file's chunk_size
    line_number,      \* lines consumed by the loop over the file being read
    chunk,            \* split_jsonl_file's buffer
    chunk_index,      \* split_jsonl_file's chunk_index
    split_returned,   \* run_batch_processing's chunk_files is bound: the chunker returned
    chunk_files,      \* the list of chunk file names (chunk indices)
    disk,             \* files written or handed over, on disk: name -> lines
    idx,              \* position of process_batches' for loop (0 = not started)
    failed_batches,   \* process_batches.failed_batches
    processed_files,  \* process_batches.processed_files
    cidx,             \* position of clean_up_files' loop
    att,              \* failed attempts of the running client operation
    datt,             \* failed attempts of the running download_batch_results
    file_id,          \* process_batch.file_id (0 = unset)
    batch_id,         \* process_batch.batch_id (0 = unset)
    status,           \* process_batch.status
    ret,              \* the value returned or the exception raised last
    srv_files,        \* remote: file id -> the chunk uploaded
    srv_jobs,         \* remote: job id -> [input, status]
    results,          \* result files written: the job ids k of results_{k}.jsonl
    closed,           \* number of times the HTTP client was closed
    nreq,             \* HTTP requests issued by a directly called client operation
    nget,             \* those of them that were GETs of a result file
    npoll,            \* status snapshots read by the running polling loop
    nsleep,           \* sleeps of the running polling loop
    nlost,            \* lost create-batch responses so far
    reqs,             \* history: kinds of request issued for the unit in progress
    outcome,          \* history: unit -> "pending", "succeeded" or "failed"
    removed,          \* history: the os.remove calls in order, [path, ok]
    env_fault         \* history: the environment answered with a failure

vars == << entry, os_defined, pc, infile, chunk_size, line_number, chunk,
           chunk_index, split_returned, chunk_files, disk, idx, failed_batches,
           processed_files, cidx, att, datt, file_id, batch_id, status, ret,
           srv_files, srv_jobs, results, closed, nreq, nget, npoll, nsleep, nlost,
           reqs, outcome, removed, env_fault >>

splitVars  == << infile, chunk_size, line_number, chunk, chunk_index,
                 split_returned >>
remoteVars == << srv_files, srv_jobs, nlost >>
loopVars   == << idx, failed_batches, processed_files, cidx >>
unitVars   == << file_id, batch_id, status, npoll, nsleep >>

\* ----------------------------------------------------------------- values
ClientEntries == {"upload_file", "create_batch", "get_batch_status",
                  "download_batch_results"}
HelperEntries == {"csv_to_jsonl", "validate_jsonl"}
Entries == {"cli", "process_batches", "clean_up_files"} \cup ClientEntries
               \cup HelperEntries

Terminal == {"succeeded", "failed", "cancelled"}
\* "none" is a snapshot without a status field, "unknown" any other string
StatusValues == Terminal \cup {"in_progress", "unknown", "none"}

NoRet == [kind |-> "none", att |-> 0, datt |-> 0, val |-> 0]

\* The manager's configuration, fixed at construction (self.completion_window,
\* self.endpoint), and a job as the remote side holds it: the payload it was
\* created with, the unit whose request created it, and its status.
completion_window == "24h"
endpoint == "/v1/completions"
Job(input, unit, s) ==
    [input |-> input, unit |-> unit, status |-> s,
     completion_window |-> completion_window, endpoint |-> endpoint]
SeqOfInts(n) == [i \in 1 .. n |-> i]
RangeOf(s) == {s[i] : i \in 1 .. Len(s)}

\* -------------------------------------------------------------------- Init
\* What every entry point starts from: nothing done yet.
Blank ==
    /\ line_number = 0 /\ chunk = << >> /\ chunk_index = 1
    /\ split_returned = FALSE
    /\ failed_batches = << >> /\ cidx = 0
    /\ att = 0 /\ datt = 0 /\ status = "none" /\ ret = NoRet
    /\ results = {} /\ closed = 0 /\ nreq = 0 /\ nget = 0 /\ npoll = 0 /\ nsleep = 0
    /\ nlost = 0 /\ removed = << >> /\ env_fault = FALSE

\* The chunk files a host hands over: their content is not read here.
DiskOf(present) == [u \in present |-> SeqOfInts(1)]

\* cli.process -> run_batch_processing(input, output, chunk_size, ...).  The
\* CLI process binds no `os` in batch_manager's namespace: batch_manager.py
\* has no `import os`, and nothing the CLI imports adds one.
InitCli ==
    /\ entry = "cli" /\ os_defined = FALSE /\ pc = "split"
    /\ \E n \in 0 .. MaxLines : infile = SeqOfInts(n)
    /\ chunk_size \in 1 .. MaxChunk
    /\ chunk_files = << >> /\ disk = << >> /\ processed_files = << >>
    /\ idx = 0 /\ file_id = 0 /\ batch_id = 0
    /\ srv_files = << >> /\ srv_jobs = << >>
    /\ reqs = {} /\ outcome = << >>

\* A host program calls manager.process_batches(chunk_files) itself.  Whether
\* `os` resolves in batch_manager's namespace is then the host's doing.
InitProcessBatches ==
    /\ entry = "process_batches" /\ os_defined \in BOOLEAN /\ pc = "pb_start"
    /\ infile = << >> /\ chunk_size = 1
    /\ \E n \in 0 .. MaxUnits :
          /\ chunk_files = SeqOfInts(n)
          /\ disk = DiskOf(1 .. n)
    /\ processed_files = << >>
    /\ idx = 0 /\ file_id = 0 /\ batch_id = 0
    /\ srv_files = << >> /\ srv_jobs = << >>
    /\ reqs = {} /\ outcome = << >>

\* A host program (or a test) calls one client operation directly.
InitClient ==
    /\ entry \in ClientEntries
    /\ infile = << >> /\ chunk_size = 1
    /\ chunk_files = << 1 >> /\ idx = 1 /\ processed_files = << >>
    /\ reqs = {} /\ outcome = << "pending" >>
    /\ \/ /\ entry = "upload_file" /\ pc = "upload"
          /\ os_defined \in BOOLEAN /\ disk = DiskOf({1})
          /\ file_id = 0 /\ batch_id = 0
          /\ srv_files = << >> /\ srv_jobs = << >>
       \/ /\ entry = "create_batch" /\ pc = "create"
          /\ os_defined = FALSE /\ disk = DiskOf({1})
          /\ file_id = 1 /\ batch_id = 0
          /\ srv_files = << 1 >> /\ srv_jobs = << >>
       \/ /\ entry \in {"get_batch_status", "download_batch_results"}
          /\ pc = IF entry = "get_batch_status" THEN "status" ELSE "dl_status"
          /\ os_defined = FALSE /\ disk = DiskOf({1})
          /\ file_id = 1 /\ batch_id = 1
          /\ srv_files = << 1 >>
          /\ \E s \in Terminal \cup {"in_progress"} :
                srv_jobs = << Job(1, 1, s) >>

\* The lists of at most n paths over a set of paths, repetitions included.
ListsOver(paths, n) == UNION {[1 .. k -> paths] : k \in 0 .. n}

\* A host program calls utils.clean_up_files(file_paths, logger) itself, with
\* any list of paths, present on disk or not.
InitCleanUp ==
    /\ entry = "clean_up_files" /\ os_defined = FALSE /\ pc = "cleanup"
    /\ infile = << >> /\ chunk_size = 1
    /\ chunk_files = << >> /\ idx = 0
    /\ processed_files \in ListsOver(1 .. MaxUnits, MaxUnits + 1)
    /\ \E present \in SUBSET (1 .. MaxUnits) : disk = DiskOf(present)
    /\ file_id = 0 /\ batch_id = 0
    /\ srv_files = << >> /\ srv_jobs = << >>
    /\ reqs = {} /\ outcome = << >>

\* The batch machinery is not involved in a call of a jsonl_helper function.
NoBatch ==
    /\ os_defined = FALSE /\ chunk_size = 1
    /\ chunk_files = << >> /\ idx = 0 /\ processed_files = << >>
    /\ file_id = 0 /\ batch_id = 0
    /\ srv_files = << >> /\ srv_jobs = << >>
    /\ reqs = {} /\ outcome = << >>

\* CSV files as csv.reader yields them: a header row and up to MaxRows more
\* rows of up to MaxCells cells each; an empty row is a blank line.
Cells == {"x", "y"}
Headers == {<< "name" >>, << "name", "age" >>, << "name", "name" >>}
CsvRows == UNION {[1 .. k -> Cells] : k \in 0 .. MaxCells}
CsvFiles == {<< h >> \o rows : h \in Headers,
                               rows \in UNION {[1 .. k -> CsvRows] : k \in 0 .. MaxRows}}

\* A line of a JSONL file: a JSON text (here an object, as its key/value
\* pairs in order), an empty line, or text that is not JSON.
JsonLine(pairs) == [kind |-> "json", pairs |-> pairs]
BlankLine == [kind |-> "blank", pairs |-> << >>]
TextLine == [kind |-> "text", pairs |-> << >>]
FileLines == {JsonLine(<< >>), BlankLine, TextLine}

\* A host program (or a test) calls jsonl_helper.csv_to_jsonl(csv, jsonl)
\* and then validates the file it got, as test_validate_jsonl_valid does.
InitCsvToJsonl ==
    /\ entry = "csv_to_jsonl" /\ pc = "csv"
    /\ infile \in CsvFiles /\ disk = << >>
    /\ NoBatch

\* A host program (or a test) calls jsonl_helper.validate_jsonl(jsonl_file)
\* on a file of any lines; the file is disk[1].
InitValidateJsonl ==
    /\ entry = "validate_jsonl" /\ pc = "validate"
    /\ infile = << >>
    /\ \E lines \in UNION {[1 .. k -> FileLines] : k \in 0 .. MaxFileLines} :
          disk = [u \in {1} |-> lines]
    /\ NoBatch

Init ==
    Blank /\ (\/ InitCli \/ InitProcessBatches \/ InitClient \/ InitCleanUp
              \/ InitCsvToJsonl \/ InitValidateJsonl)

\* ------------------------------------------------------- split_jsonl_file
\* open(chunk_filename, 'w') ... writelines(chunk)
WriteFile(d, name, lines) ==
    [x \in (DOMAIN d) \cup {name} |-> IF x = name THEN lines ELSE d[x]]

\* Mutant of ChunkFull: the modulus is taken one too large.
ChunkFullOffByOne(ln, size) == ln % (size + 1) = 0

\* line 24: the buffer is written out when the line count is a multiple of
\* chunk_size.
ChunkFull(ln, size) == ln % size = 0

\* One iteration of `for line_number, line in enumerate(infile, start=1)`.
split_read_line ==
    /\ pc = "split" /\ line_number < Len(infile)
    /\ LET ln  == line_number + 1
           buf == Append(chunk, infile[ln])
       IN  /\ line_number' = ln
           /\ IF ChunkFull(ln, chunk_size)
              THEN /\ disk' = WriteFile(disk, chunk_index, buf)
                   /\ chunk_files' = Append(chunk_files, chunk_index)
                   /\ chunk' = << >>
                   /\ chunk_index' = chunk_index + 1
              ELSE /\ chunk' = buf
                   /\ UNCHANGED << disk, chunk_files, chunk_index >>
    /\ UNCHANGED << entry, os_defined, pc, infile, chunk_size, split_returned,
                    loopVars, att, datt, unitVars, ret, remoteVars, results,
                    closed, nreq, nget, reqs, outcome, removed, env_fault >>

\* End of input: the remaining lines are written, the list is returned, and
\* run_batch_processing returns early when the list is empty.
split_return ==
    /\ pc = "split" /\ line_number = Len(infile)
    /\ IF chunk # << >>
       THEN /\ disk' = WriteFile(disk, chunk_index, chunk)
            /\ chunk_files' = Append(chunk_files, chunk_index)
       ELSE UNCHANGED << disk, chunk_files >>
    /\ pc' = IF chunk_files' = << >> THEN "close" ELSE "pb_start"
    /\ split_returned' = TRUE
    /\ UNCHANGED << entry, os_defined, infile, chunk_size, line_number, chunk,
                    chunk_index, loopVars, att, datt, unitVars, ret, remoteVars,
                    results, closed, nreq, nget, reqs, outcome, removed, env_fault >>

\* Mutant of AfterSplitRaised: the chunker's exception leaves
\* run_batch_processing without passing through `finally`.
AfterSplitRaisedNoFinally == "done"

\* Where an exception of the chunker lands in run_batch_processing: in
\* `except Exception`, which logs it, and then in `finally`.
AfterSplitRaised == "close"

\* open(input_file) or the writing of a chunk file raises: the chunk files
\* written so far stay on disk, and run_batch_processing's chunk_files is
\* never bound.
split_raised ==
    /\ pc = "split"
    /\ ret' = [kind |-> "OSError", att |-> 0, datt |-> 0, val |-> 0]
    /\ pc' = AfterSplitRaised
    /\ chunk_files' = << >>
    /\ env_fault' = TRUE
    /\ UNCHANGED << entry, os_defined, splitVars, disk, loopVars, att, datt,
                    unitVars, remoteVars, results, closed, nreq, nget, reqs, outcome,
                    removed >>

\* ------------------------------------------------------------- jsonl_helper
\* Python values of a DictReader row: a string, None, or a list of strings.
PyStr(c) == [t |-> "str", s |-> c, l |-> << >>]
PyNone == [t |-> "none", s |-> "", l |-> << >>]
PyList(cs) == [t |-> "list", s |-> "", l |-> cs]
\* Keys of a DictReader row: a field name, or None (the restkey).
FieldKey(n) == [none |-> FALSE, s |-> n]
NoneKey == [none |-> TRUE, s |-> ""]

\* d[k] = v on a dict kept as its items in insertion order: an existing key
\* keeps its place and takes the new value.
DictSet(d, k, v) ==
    IF \E i \in 1 .. Len(d) : d[i].k = k
    THEN [i \in 1 .. Len(d) |-> IF d[i].k = k THEN [k |-> k, v |-> v] ELSE d[i]]
    ELSE Append(d, [k |-> k, v |-> v])

RECURSIVE ZipDict(_, _, _)
\* dict(zip(fieldnames, row)), built from the first n pairs.
ZipDict(fieldnames, row, n) ==
    IF n = 0 THEN << >>
    ELSE DictSet(ZipDict(fieldnames, row, n - 1), FieldKey(fieldnames[n]),
                 PyStr(row[n]))

RECURSIVE FillMissing(_, _, _, _)
\* for key in fieldnames[lr:]: d[key] = restval  (restval is None)
FillMissing(d, fieldnames, from, to) ==
    IF from > to THEN d
    ELSE FillMissing(DictSet(d, FieldKey(fieldnames[from]), PyNone),
                     fieldnames, from + 1, to)

\* Mutant of RowDict: the cells are matched to the field names from the
\* right-hand end of the row.
RowDictReversed(fieldnames, row) ==
    LET n == IF Len(fieldnames) < Len(row) THEN Len(fieldnames) ELSE Len(row)
        rev == [i \in 1 .. Len(row) |-> row[Len(row) + 1 - i]]
    IN  ZipDict(fieldnames, rev, n)

\* The dict csv.DictReader makes of a non-empty row: the cells under their
\* field names, surplus cells as a list under the key None, None for the
\* field names that have no cell.
RowDict(fieldnames, row) ==
    LET lf == Len(fieldnames)
        lr == Len(row)
        d  == ZipDict(fieldnames, row, IF lf < lr THEN lf ELSE lr)
    IN  IF lf < lr THEN DictSet(d, NoneKey, PyList(SubSeq(row, lf + 1, lr)))
        ELSE IF lf > lr THEN FillMissing(d, fieldnames, lr + 1, lf)
        ELSE d

\* json.dumps(row): the items in order; a None key is written as "null".
JsonDumps(d) ==
    JsonLine([i \in 1 .. Len(d) |->
                 [k |-> IF d[i].k.none THEN "null" ELSE d[i].k.s, v |-> d[i].v]])

\* Whether json.loads(line) returns; otherwise it raises JSONDecodeError.
JsonLoads(line) == line.kind = "json"

RECURSIVE CsvToJsonl(_, _, _)
\* The lines csv_to_jsonl writes for the rows from position i on: DictReader
\* takes the first row as the field names and skips every empty row.
CsvToJsonl(fieldnames, rows, i) ==
    IF i > Len(rows) THEN << >>
    ELSE IF rows[i] = << >> THEN CsvToJsonl(fieldnames, rows, i + 1)
    ELSE << JsonDumps(RowDict(fieldnames, rows[i])) >>
             \o CsvToJsonl(fieldnames, rows, i + 1)

\* csv_to_jsonl ran to its end: the output file holds one line per row read.
csv_to_jsonl_return ==
    /\ pc = "csv"
    /\ disk' = WriteFile(disk, 1, CsvToJsonl(infile[1], infile, 2))
    /\ pc' = "validate"
    /\ UNCHANGED << entry, os_defined, splitVars, chunk_files, loopVars, att,
                    datt, unitVars, ret, remoteVars, results, closed, nreq, nget,
                    reqs, outcome, removed, env_fault >>

\* open() of either file raises in csv_to_jsonl or in validate_jsonl: the
\* handler logs the exception and re-raises it.
helper_open_error ==
    /\ pc \in {"csv", "validate"} /\ line_number = 0
    /\ ret' = [kind |-> "OSError", att |-> 0, datt |-> 0, val |-> FALSE]
    /\ pc' = "done"
    /\ env_fault' = TRUE
    /\ UNCHANGED << entry, os_defined, splitVars, chunk_files, disk, loopVars,
                    att, datt, unitVars, remoteVars, results, closed, nreq, nget,
                    reqs, outcome, removed >>

\* Mutant of OnLine: a line that does not parse is logged and skipped.
OnLineLenient(parsed) == "next"

\* What validate_jsonl's loop does with a line: go on to the next when
\* json.loads returned, `return False` when it raised JSONDecodeError.
OnLine(parsed) == IF parsed THEN "next" ELSE "return"

\* One iteration of validate_jsonl's loop.
validate_line ==
    /\ pc = "validate" /\ line_number < Len(disk[1])
    /\ line_number' = line_number + 1
    /\ IF OnLine(JsonLoads(disk[1][line_number'])) = "return"
       THEN /\ ret' = [kind |-> "ok", att |-> 0, datt |-> 0, val |-> FALSE]
            /\ pc' = "done"
       ELSE UNCHANGED << pc, ret >>
    /\ UNCHANGED << entry, os_defined, infile, chunk_size, chunk, chunk_index,
                    split_returned, chunk_files, disk, loopVars, att, datt,
                    unitVars, remoteVars, results, closed, nreq, nget, reqs, outcome,
                    removed, env_fault >>

\* validate_jsonl's loop is exhausted: return True.
validate_return ==
    /\ pc = "validate" /\ line_number = Len(disk[1])
    /\ ret' = [kind |-> "ok", att |-> 0, datt |-> 0, val |-> TRUE]
    /\ pc' = "done"
    /\ UNCHANGED << entry, os_defined, splitVars, chunk_files, disk, loopVars,
                    att, datt, unitVars, remoteVars, results, closed, nreq, nget,
                    reqs, outcome, removed, env_fault >>

\* --------------------------------------------------------- raise / return
\* Mutant of Raised: process_batch logs an exception of
\* download_batch_results and returns normally.
RaisedDownloadSwallowed(kind) ==
    /\ ret' = [kind |-> kind, att |-> att + 1, datt |-> datt + 1, val |-> 0]
    /\ pc' = IF entry \in ClientEntries THEN "done"
             ELSE IF pc \in {"dl_status", "dl_get"} THEN "returned" ELSE "except"
    /\ outcome' = IF pc \in {"dl_status", "dl_get"}
                  THEN [outcome EXCEPT ![idx] = "succeeded"]
                  ELSE [outcome EXCEPT ![idx] = "failed"]

\* Mutant of Raised: process_batch swallows an exception of upload_file and
\* goes on to create_batch.
RaisedUploadSwallowed(kind) ==
    /\ ret' = [kind |-> kind, att |-> att + 1, datt |-> datt + 1, val |-> 0]
    /\ pc' = IF entry \in ClientEntries THEN "done"
             ELSE IF pc = "upload" THEN "create" ELSE "except"
    /\ outcome' = IF pc = "upload" THEN outcome
                  ELSE [outcome EXCEPT ![idx] = "failed"]

\* Where an exception raised by the running client operation lands: in the
\* caller of a direct call, or in process_batch's `except ...: raise`, which
\* ends that unit's lifecycle in failure.
Raised(kind) ==
    /\ ret' = [kind |-> kind, att |-> att + 1, datt |-> datt + 1, val |-> 0]
    /\ pc' = IF entry \in ClientEntries THEN "done" ELSE "except"
    /\ outcome' = [outcome EXCEPT ![idx] = "failed"]

\* A request of the given kind is issued for the unit being processed; the
\* requests of a directly called client operation are counted.
Requested(kind) ==
    /\ nreq' = IF entry \in ClientEntries THEN nreq + 1 ELSE nreq
    /\ nget' = IF entry \in ClientEntries /\ kind = "dl_get" THEN nget + 1 ELSE nget
    /\ reqs' = reqs \cup {kind}

\* Mutant of ShouldRetry: the stop condition is tested one attempt late.
ShouldRetryOneMore(kind, made, limit) == kind = "RequestError" /\ made <= limit

\* The tenacity decorators: retry_if_exception_type(httpx.RequestError) with
\* stop_after_attempt(limit); `made` counts the attempts made so far.
ShouldRetry(kind, made, limit) == kind = "RequestError" /\ made < limit

\* ------------------------------------------------------------ upload_file
FileMissing == chunk_files[idx] \notin DOMAIN disk

\* open(file_path, 'rb') raises: the file is gone or unreadable.  OSError is
\* not an httpx.RequestError, so tenacity re-raises it at once.
upload_file_open_error ==
    /\ pc = "upload"
    /\ Raised("OSError")
    /\ env_fault' = TRUE
    /\ UNCHANGED << entry, os_defined, splitVars, chunk_files, disk, loopVars,
                    att, datt, unitVars, remoteVars, results, closed, nreq, nget,
                    reqs, removed >>

\* The file is open and line 71 evaluates os.path.basename(file_path) with no
\* `os` in scope: NameError, before any request, and not retried either.
upload_file_name_error ==
    /\ pc = "upload"
    /\ ~FileMissing /\ ~os_defined
    /\ Raised("NameError")
    /\ UNCHANGED env_fault
    /\ UNCHANGED << entry, os_defined, splitVars, chunk_files, disk, loopVars,
                    att, datt, unitVars, remoteVars, results, closed, nreq, nget,
                    reqs, removed >>

\* POST /v1/files answers 200 with an id.
upload_file_ok ==
    /\ pc = "upload" /\ ~FileMissing /\ os_defined
    /\ Requested("upload")
    /\ srv_files' = Append(srv_files, chunk_files[idx])
    /\ file_id' = Len(srv_files) + 1
    /\ ret' = [kind |-> "ok", att |-> att + 1, datt |-> 1, val |-> file_id']
    /\ pc' = IF entry = "upload_file" THEN "done" ELSE "create"
    /\ att' = 0
    /\ UNCHANGED << entry, os_defined, splitVars, chunk_files, disk, loopVars,
                    datt, batch_id, status, npoll, nsleep, srv_jobs, nlost,
                    results, closed, outcome, removed, env_fault >>

\* The POST raises httpx.RequestError: retried until the fifth attempt, whose
\* exception is re-raised (reraise=True).
upload_file_request_error ==
    /\ pc = "upload" /\ ~FileMissing /\ os_defined
    /\ Requested("upload")
    /\ env_fault' = TRUE
    /\ IF ShouldRetry("RequestError", att + 1, UploadAttempts)
       THEN /\ att' = att + 1
            /\ UNCHANGED << pc, ret, outcome >>
       ELSE /\ Raised("RequestError")
            /\ UNCHANGED att
    /\ UNCHANGED << entry, os_defined, splitVars, chunk_files, disk, loopVars,
                    datt, unitVars, remoteVars, results, closed, removed >>

\* The POST is rejected (raise_for_status) or its body has no 'id'.
upload_file_rejected ==
    /\ pc = "upload" /\ ~FileMissing /\ os_defined
    /\ Requested("upload")
    /\ env_fault' = TRUE
    /\ \E k \in {"HTTPStatusError", "KeyError"} : Raised(k)
    /\ UNCHANGED << entry, os_defined, splitVars, chunk_files, disk, loopVars,
                    att, datt, unitVars, remoteVars, results, closed, removed >>

\* ----------------------------------------------------------- create_batch
\* Mutant of NewJob: the payload names the first file ever uploaded.
NewJobFirstFile == Job(1, idx, "in_progress")

\* The job POST /v1/batches creates from the payload of lines 99-103:
\* completion_window, endpoint and input_file_id = process_batch's file_id.
NewJob ==
    [input |-> file_id, unit |-> idx, status |-> "in_progress",
     completion_window |-> completion_window, endpoint |-> endpoint]

\* POST /v1/batches answers 200 with the id of the job it created.
create_batch_ok ==
    /\ pc = "create"
    /\ Requested("submit")
    /\ srv_jobs' = Append(srv_jobs, NewJob)
    /\ batch_id' = Len(srv_jobs) + 1
    /\ ret' = [kind |-> "ok", att |-> att + 1, datt |-> 1, val |-> batch_id']
    /\ pc' = IF entry = "create_batch" THEN "done" ELSE "poll"
    /\ att' = 0
    /\ UNCHANGED << entry, os_defined, splitVars, chunk_files, disk, loopVars,
                    datt, file_id, status, npoll, nsleep, srv_files, nlost,
                    results, closed, outcome, removed, env_fault >>

\* The POST raises httpx.RequestError.  A connection failure leaves the server
\* untouched; a read timeout can come after the server created the job.
create_batch_request_error ==
    /\ pc = "create"
    /\ Requested("submit")
    /\ env_fault' = TRUE
    /\ \E lost \in BOOLEAN :
          IF lost
          THEN /\ nlost < MaxLost
               /\ nlost' = nlost + 1
               /\ srv_jobs' = Append(srv_jobs, NewJob)
          ELSE UNCHANGED << nlost, srv_jobs >>
    /\ IF ShouldRetry("RequestError", att + 1, CreateAttempts)
       THEN /\ att' = att + 1
            /\ UNCHANGED << pc, ret, outcome >>
       ELSE /\ Raised("RequestError")
            /\ UNCHANGED att
    /\ UNCHANGED << entry, os_defined, splitVars, chunk_files, disk, loopVars,
                    datt, unitVars, srv_files, results, closed, removed >>

\* The POST is rejected (raise_for_status) or its body has no 'id'.
create_batch_rejected ==
    /\ pc = "create"
    /\ Requested("submit")
    /\ env_fault' = TRUE
    /\ \E k \in {"HTTPStatusError", "KeyError"} : Raised(k)
    /\ UNCHANGED << entry, os_defined, splitVars, chunk_files, disk, loopVars,
                    att, datt, unitVars, remoteVars, results, closed, removed >>

\* ------------------------------------------------------- get_batch_status
\* The request kind a status GET is recorded under, by its caller.
StatusKind == IF pc = "dl_status" THEN "dl_status" ELSE "poll"

\* The statuses GET /v1/batches/{id} may report now: a terminal job keeps its
\* status; the polling loop is shown at most MaxPolls non-terminal snapshots.
Reportable ==
    LET job == srv_jobs[batch_id]
    IN  IF job.status \in Terminal THEN {job.status}
        ELSE IF pc = "poll" /\ nsleep >= MaxPolls THEN Terminal
        ELSE StatusValues

\* Whether a snapshot of status s carries an output_file_url: the field is
\* optional in the response, and the code reads it whatever the status is.
UrlChoices(s) == BOOLEAN

\* The remote job as a snapshot of status s shows it.
Reported(s) ==
    IF s \in Terminal
    THEN [srv_jobs EXCEPT ![batch_id] = [@ EXCEPT !.status = s]]
    ELSE srv_jobs

\* A direct get_batch_status call returns the snapshot.
get_batch_status_ok ==
    /\ pc = "status"
    /\ Requested("poll")
    /\ \E s \in Reportable :
          /\ srv_jobs' = Reported(s)
          /\ ret' = [kind |-> "ok", att |-> att + 1, datt |-> 1, val |-> s]
    /\ pc' = "done"
    /\ att' = 0
    /\ UNCHANGED << entry, os_defined, splitVars, chunk_files, disk, loopVars,
                    datt, unitVars, srv_files, nlost, results, closed, outcome,
                    removed, env_fault >>

\* Mutant of InRetriedDownload: the status is fetched outside the retried
\* body, so its exception is not download_batch_results' to retry.
NotInRetriedDownload == FALSE

\* Whether the running get_batch_status was called from the body of
\* download_batch_results (line 159), which tenacity re-runs as a whole.
InRetriedDownload == pc = "dl_status"

\* The GET raises httpx.RequestError, in any of the three callers.  Inside
\* download_batch_results the exhausted inner operation re-raises into the
\* outer retried body, which counts it as one failed download attempt.
get_batch_status_request_error ==
    /\ pc \in {"status", "poll", "dl_status"}
    /\ Requested(StatusKind)
    /\ env_fault' = TRUE
    /\ IF ShouldRetry("RequestError", att + 1, StatusAttempts)
       THEN /\ att' = att + 1
            /\ UNCHANGED << pc, ret, outcome, datt >>
       ELSE IF InRetriedDownload
               /\ ShouldRetry("RequestError", datt + 1, DownloadAttempts)
       THEN /\ datt' = datt + 1
            /\ att' = 0
            /\ UNCHANGED << pc, ret, outcome >>
       ELSE /\ Raised("RequestError")
            /\ UNCHANGED << att, datt >>
    /\ UNCHANGED << entry, os_defined, splitVars, chunk_files, disk, loopVars,
                    unitVars, remoteVars, results, closed, removed >>

\* The GET is rejected (raise_for_status), in any of the three callers.
get_batch_status_rejected ==
    /\ pc \in {"status", "poll", "dl_status"}
    /\ Requested(StatusKind)
    /\ env_fault' = TRUE
    /\ Raised("HTTPStatusError")
    /\ UNCHANGED << entry, os_defined, splitVars, chunk_files, disk, loopVars,
                    att, datt, unitVars, remoteVars, results, closed, removed >>

\* ---------------------------------------------- process_batch: the poll loop
\* Mutant of PollBranch: the loop gives up on a job that is still not
\* terminal after one sleep.
PollBranchTimeout(s) ==
    IF s = "succeeded" THEN "download"
    ELSE IF s \in {"failed", "cancelled"} \/ nsleep >= 1 THEN "raise"
    ELSE "sleep"

\* Mutant of PollBranch: only `in_progress` keeps the loop going; any other
\* status that is not `succeeded` raises.
PollBranchUnknownRaises(s) ==
    IF s = "succeeded" THEN "download"
    ELSE IF s = "in_progress" THEN "sleep"
    ELSE "raise"

\* Mutant of PollBranch: `cancelled` is missing from the terminal statuses.
PollBranchNoCancelled(s) ==
    IF s = "succeeded" THEN "download"
    ELSE IF s = "failed" THEN "raise"
    ELSE "sleep"

\* What the loop body does with a snapshot's status (lines 191-200).
PollBranch(s) ==
    IF s = "succeeded" THEN "download"
    ELSE IF s \in {"failed", "cancelled"} THEN "raise"
    ELSE "sleep"

\* One iteration of `while True`: the snapshot arrives and is acted on.
poll_status ==
    /\ pc = "poll"
    /\ Requested("poll")
    /\ npoll' = npoll + 1
    /\ att' = 0
    /\ \E s \in Reportable :
          /\ srv_jobs' = Reported(s)
          /\ status' = s
          /\ CASE PollBranch(s) = "download" ->
                    /\ pc' = "dl_status"
                    /\ datt' = 0
                    /\ UNCHANGED << ret, outcome, env_fault >>
               [] PollBranch(s) = "raise" ->
                    /\ Raised("RuntimeError")
                    /\ env_fault' = TRUE
                    /\ UNCHANGED datt
               [] OTHER ->
                    /\ pc' = "sleep"
                    /\ UNCHANGED << ret, outcome, env_fault, datt >>
    /\ UNCHANGED << entry, os_defined, splitVars, chunk_files, disk, loopVars,
                    file_id, batch_id, nsleep, srv_files, nlost, results,
                    closed, removed >>

\* await asyncio.sleep(30), then the next iteration.
poll_sleep ==
    /\ pc = "sleep"
    /\ nsleep' = nsleep + 1
    /\ pc' = "poll"
    /\ UNCHANGED << entry, os_defined, splitVars, chunk_files, disk, loopVars,
                    att, datt, file_id, batch_id, status, npoll, ret,
                    remoteVars, results, closed, nreq, nget, reqs, outcome, removed,
                    env_fault >>

\* ------------------------------------------------- download_batch_results
\* The status snapshot download_batch_results fetches for itself (line 159):
\* without an output_file_url it raises ValueError, which is not retried.
download_status ==
    /\ pc = "dl_status"
    /\ Requested("dl_status")
    /\ att' = 0
    /\ \E s \in Reportable : \E u \in UrlChoices(s) :
          /\ srv_jobs' = Reported(s)
          /\ IF u
             THEN /\ pc' = "dl_get"
                  /\ UNCHANGED << ret, outcome, env_fault >>
             ELSE /\ Raised("ValueError")
                  /\ env_fault' = TRUE
    /\ UNCHANGED << entry, os_defined, splitVars, chunk_files, disk, loopVars,
                    datt, unitVars, srv_files, nlost, results, closed,
                    removed >>

\* GET <output_file_url> answers 200: the body is written to
\* {output_dir}/results_{batch_id}.jsonl and the operation returns; inside
\* process_batch that ends the unit's lifecycle in success.
download_get_ok ==
    /\ pc = "dl_get"
    /\ Requested("dl_get")
    /\ results' = results \cup {batch_id}
    /\ ret' = [kind |-> "ok", att |-> 1, datt |-> datt + 1, val |-> batch_id]
    /\ IF entry \in ClientEntries
       THEN /\ pc' = "done"
            /\ UNCHANGED outcome
       ELSE /\ pc' = "returned"
            /\ outcome' = [outcome EXCEPT ![idx] = "succeeded"]
    /\ UNCHANGED << entry, os_defined, splitVars, chunk_files, disk, loopVars,
                    att, datt, unitVars, remoteVars, closed, removed,
                    env_fault >>

\* The GET raises httpx.RequestError: the whole body, status fetch included,
\* is retried until the third attempt.
download_get_request_error ==
    /\ pc = "dl_get"
    /\ Requested("dl_get")
    /\ env_fault' = TRUE
    /\ IF ShouldRetry("RequestError", datt + 1, DownloadAttempts)
       THEN /\ datt' = datt + 1
            /\ pc' = "dl_status"
            /\ UNCHANGED << ret, outcome >>
       ELSE /\ Raised("RequestError")
            /\ UNCHANGED datt
    /\ UNCHANGED << entry, os_defined, splitVars, chunk_files, disk, loopVars,
                    att, unitVars, remoteVars, results, closed, removed >>

\* The GET is rejected (raise_for_status), or the result file cannot be written.
download_get_rejected ==
    /\ pc = "dl_get"
    /\ Requested("dl_get")
    /\ env_fault' = TRUE
    /\ \E k \in {"HTTPStatusError", "OSError"} : Raised(k)
    /\ UNCHANGED << entry, os_defined, splitVars, chunk_files, disk, loopVars,
                    att, datt, unitVars, remoteVars, results, closed, removed >>

\* -------------------------------------------------------- process_batches
\* ensure_directory(self.output_dir) and the two empty lists.
process_batches_begin ==
    /\ pc = "pb_start"
    /\ pc' = "loop"
    /\ idx' = 0 /\ failed_batches' = << >> /\ processed_files' = << >>
    /\ outcome' = [u \in 1 .. Len(chunk_files) |-> "pending"]
    /\ UNCHANGED << entry, os_defined, splitVars, chunk_files, disk, cidx, att,
                    datt, unitVars, ret, remoteVars, results, closed, nreq, nget,
                    reqs, removed, env_fault >>

\* os.makedirs raises: process_batches has no handler around it, so the
\* exception leaves it; run_batch_processing logs it and closes the client.
ensure_directory_error ==
    /\ pc = "pb_start"
    /\ ret' = [kind |-> "OSError", att |-> 0, datt |-> 0, val |-> 0]
    /\ pc' = IF entry = "cli" THEN "close" ELSE "done"
    /\ env_fault' = TRUE
    /\ UNCHANGED << entry, os_defined, splitVars, chunk_files, disk, loopVars,
                    att, datt, unitVars, remoteVars, results, closed, nreq, nget,
                    reqs, outcome, removed >>

\* Mutant of LoopReady: the loop starts the next unit while the current one
\* is still sleeping in its polling loop.
LoopReadyEager == pc \in {"loop", "sleep"}

\* Whether the for loop may take its next chunk file: it is between two units.
LoopReady == pc = "loop"

\* process_batch's frame is gone: its locals and the exception it raised
\* (logged by the handler, kept nowhere) are dropped.
FrameDropped ==
    /\ att' = 0 /\ datt' = 0 /\ nreq' = 0 /\ nget' = 0
    /\ file_id' = 0 /\ batch_id' = 0 /\ status' = "none"
    /\ npoll' = 0 /\ nsleep' = 0
    /\ ret' = NoRet /\ reqs' = {}

\* for chunk_file in chunk_files: await self.process_batch(chunk_file)
process_batch_begin ==
    /\ LoopReady /\ idx < Len(chunk_files)
    /\ idx' = idx + 1
    /\ pc' = "upload"
    /\ UNCHANGED << entry, os_defined, splitVars, chunk_files, disk,
                    failed_batches, processed_files, cidx, att, datt, unitVars,
                    ret, remoteVars, results, closed, nreq, nget, reqs, outcome,
                    removed, env_fault >>

\* Mutant of OnReturn: the list is assigned the unit's file instead of
\* having it appended.
OnReturnReplaced(processed, path) == << path >>

\* What the for loop does with the unit's chunk file when process_batch
\* returned (line 221).
OnReturn(processed, path) == Append(processed, path)

\* process_batch returned: processed_files.append(chunk_file)
process_batch_returned ==
    /\ pc = "returned"
    /\ processed_files' = OnReturn(processed_files, chunk_files[idx])
    /\ pc' = "loop"
    /\ FrameDropped
    /\ UNCHANGED << entry, os_defined, splitVars, chunk_files, disk, idx,
                    failed_batches, cidx, remoteVars, results, closed,
                    outcome, removed, env_fault >>

\* Mutant of OnException: the failure is recorded by process_batch's handler
\* and again by the loop's.
OnExceptionTwice(failed, path) == Append(Append(failed, path), path)

\* Mutant of OnException: the handler logs the failure and records nothing.
OnExceptionDropped(failed, path) == failed

\* What `except Exception` of the for loop does with the unit's chunk file.
OnException(failed, path) == Append(failed, path)

\* Mutant of AfterUnitFailed: the loop's handler re-raises, and the exception
\* leaves process_batches.
AfterUnitFailedAbort == "done"

\* Where the loop's `except Exception` handler leaves control: at the next
\* iteration of the for loop (lines 222-224 do not raise).
AfterUnitFailed == "loop"

\* process_batch raised: the exception is logged, the file goes on the
\* failure list and the loop goes on.
process_batch_raised ==
    /\ pc = "except"
    /\ failed_batches' = OnException(failed_batches, chunk_files[idx])
    /\ pc' = AfterUnitFailed
    /\ FrameDropped
    /\ UNCHANGED << entry, os_defined, splitVars, chunk_files, disk, idx,
                    processed_files, cidx, remoteVars, results, closed,
                    outcome, removed, env_fault >>

\* Mutant of CleanupList: every chunk file is cleaned up.
CleanupAll == chunk_files

\* The list handed to clean_up_files: process_batches passes its
\* processed_files (line 227), a host its own list.
CleanupList == processed_files

\* Mutant of CleanupDue: clean_up_files is called inside the for loop, after
\* each unit.
CleanupDueInLoop == idx >= 1

\* When line 227 is reached: after the for loop, that is when every chunk
\* file has been taken.
CleanupDue == idx = Len(chunk_files)

\* The for loop is exhausted: clean-up starts.
process_batches_cleanup ==
    /\ LoopReady /\ CleanupDue
    /\ pc' = "cleanup"
    /\ cidx' = 0
    /\ UNCHANGED << entry, os_defined, splitVars, chunk_files, disk, idx,
                    failed_batches, processed_files, att, datt, unitVars, ret,
                    remoteVars, results, closed, nreq, nget, reqs, outcome, removed,
                    env_fault >>

\* --------------------------------------------------------- clean_up_files
\* Mutant of AfterRemoveFailed: a failing os.remove ends clean_up_files.
AfterRemoveFailedAbort == "done"

\* Where a raising os.remove leaves clean_up_files: the handler inside the
\* loop logs the failure and the loop goes on (lines 61-62).
AfterRemoveFailed == "cleanup"

\* One iteration of clean_up_files' loop: os.remove succeeds, or raises and
\* the failure is logged.
clean_up_file ==
    /\ pc = "cleanup" /\ cidx < Len(CleanupList)
    /\ LET path == CleanupList[cidx + 1]
       IN  /\ cidx' = cidx + 1
           /\ \/ /\ path \in DOMAIN disk
                 /\ disk' = [x \in (DOMAIN disk) \ {path} |-> disk[x]]
                 /\ removed' = Append(removed, [path |-> path, ok |-> TRUE])
                 /\ UNCHANGED << pc, env_fault >>
              \/ /\ env_fault' = TRUE
                 /\ removed' = Append(removed, [path |-> path, ok |-> FALSE])
                 /\ pc' = AfterRemoveFailed
                 /\ UNCHANGED disk
    /\ UNCHANGED << entry, os_defined, splitVars, chunk_files, idx,
                    failed_batches, processed_files, att, datt, unitVars, ret,
                    remoteVars, results, closed, nreq, nget, reqs, outcome >>

\* clean_up_files is done; the summary is logged and process_batches returns.
process_batches_return ==
    /\ pc = "cleanup" /\ cidx = Len(CleanupList)
    /\ pc' = IF entry = "cli" THEN "close" ELSE "done"
    /\ ret' = [kind |-> "ok", att |-> 0, datt |-> 0, val |-> 0]
    /\ UNCHANGED << entry, os_defined, splitVars, chunk_files, disk, loopVars,
                    att, datt, unitVars, remoteVars, results, closed, nreq, nget,
                    reqs, outcome, removed, env_fault >>

\* ---------------------------------------------------- run_batch_processing
\* finally: await manager.close()
manager_close ==
    /\ pc = "close"
    /\ closed' = closed + 1
    /\ pc' = "done"
    /\ UNCHANGED << entry, os_defined, splitVars, chunk_files, disk, loopVars,
                    att, datt, unitVars, ret, remoteVars, results, nreq, nget, reqs,
                    outcome, removed, env_fault >>

\* ------------------------------------------------------------------- Spec
Next ==
    \/ split_read_line
    \/ split_return
    \/ split_raised
    \/ upload_file_open_error
    \/ upload_file_name_error
    \/ upload_file_ok
    \/ upload_file_request_error
    \/ upload_file_rejected
    \/ create_batch_ok
    \/ create_batch_request_error
    \/ create_batch_rejected
    \/ get_batch_status_ok
    \/ get_batch_status_request_error
    \/ get_batch_status_rejected
    \/ poll_status
    \/ poll_sleep
    \/ download_status
    \/ download_get_ok
    \/ download_get_request_error
    \/ download_get_rejected
    \/ process_batches_begin
    \/ ensure_directory_error
    \/ process_batch_begin
    \/ process_batch_returned
    \/ process_batch_raised
    \/ process_batches_cleanup
    \/ clean_up_file
    \/ process_batches_return
    \/ manager_close
    \/ csv_to_jsonl_return
    \/ helper_open_error
    \/ validate_line
    \/ validate_return

Spec == Init /\ [][Next]_vars

\* One call of process_batches by a host, with progress: the single task
\* always takes its next step, every request is answered (with a response or
\* an error) and every job reports a terminal status after at most MaxPolls
\* non-terminal snapshots.
InitFair == Blank /\ InitProcessBatches /\ Len(chunk_files) <= MaxFairUnits

NextFair ==
    \/ upload_file_open_error
    \/ upload_file_name_error
    \/ upload_file_ok
    \/ upload_file_request_error
    \/ upload_file_rejected
    \/ create_batch_ok
    \/ create_batch_request_error
    \/ create_batch_rejected
    \/ get_batch_status_request_error
    \/ get_batch_status_rejected
    \/ poll_status
    \/ poll_sleep
    \/ download_status
    \/ download_get_ok
    \/ download_get_request_error
    \/ download_get_rejected
    \/ process_batches_begin
    \/ ensure_directory_error
    \/ process_batch_begin
    \/ process_batch_returned
    \/ process_batch_raised
    \/ process_batches_cleanup
    \/ clean_up_file
    \/ process_batches_return

FairSpec == InitFair /\ [][NextFair]_vars /\ WF_vars(NextFair)

\* ================================================================ claims
InRun == entry \in {"cli", "process_batches"}
Final(u) == outcome[u] \in {"succeeded", "failed"}
DownloadKinds == {"dl_status", "dl_get"}

\* C1: within process_batch the requests of one unit are issued in the order
\* upload, submit, poll, download, and a step is only taken when the step
\* before it succeeded: no submit request without a file id returned by the
\* upload, no poll request without a job id returned by the submit, no download
\* request without a snapshot of status succeeded.
C1_StepsInOrder ==
    InRun =>
        /\ "submit" \in reqs => file_id # 0 /\ "upload" \in reqs
        /\ "poll" \in reqs => batch_id # 0 /\ "submit" \in reqs
        /\ reqs \cap DownloadKinds # {} => status = "succeeded" /\ "poll" \in reqs
        /\ pc = "upload" => reqs \subseteq {"upload"}
        /\ pc = "create" => reqs \subseteq {"upload", "submit"}
        /\ pc \in {"poll", "sleep"} => reqs \subseteq {"upload", "submit", "poll"}
        /\ pc = "except" /\ file_id = 0 => reqs \subseteq {"upload"}
        /\ pc = "except" /\ batch_id = 0 => reqs \subseteq {"upload", "submit"}

\* C1 witness: a unit whose submit was rejected after a successful upload is
\* in process_batch's handler, and no poll was issued for it.
C1_Witness ==
    /\ InRun /\ pc = "except" /\ ret.kind = "HTTPStatusError"
    /\ file_id # 0 /\ batch_id = 0 /\ reqs = {"upload", "submit"}

\* C2: the polling loop ends with the first terminal snapshot (every earlier
\* snapshot was followed by exactly one sleep, none comes after it), and a
\* failed or cancelled snapshot sends the unit to the handler without any
\* download request; a result file exists only for a job that succeeded.
C2_PollingStops ==
    /\ InRun /\ status \in Terminal =>
          /\ pc \notin {"poll", "sleep"}
          /\ npoll = nsleep + 1
    /\ InRun /\ status \in {"failed", "cancelled"} =>
          /\ pc = "except"
          /\ reqs \cap DownloadKinds = {}
          /\ batch_id \notin results
    /\ InRun => \A j \in results : srv_jobs[j].status = "succeeded"

\* C2 witness: a loop that slept once and then read `cancelled`.
C2_Witness ==
    /\ InRun /\ pc = "except" /\ status = "cancelled"
    /\ nsleep = 1 /\ npoll = 2

\* The units the environment or the code made fail, in list order.
FailedUnits == SelectSeq(chunk_files, LAMBDA p : outcome[p] = "failed")

\* C3: no unit outcome makes process_batches stop or raise: when its loop is
\* over every unit has been attempted and the failure list holds exactly the
\* failed units' paths in list order; after every unit handled so far the two
\* lists account for it; and an exception only ever leaves process_batches
\* from ensure_directory, before any unit was attempted.
C3_NoAbort ==
    InRun =>
        /\ pc \in {"loop", "cleanup"} =>
              /\ \A u \in 1 .. idx : Final(u)
              /\ failed_batches = FailedUnits
        /\ pc = "cleanup" \/ (pc \in {"close", "done"} /\ ret.kind = "ok") =>
              /\ idx = Len(chunk_files)
              /\ \A u \in 1 .. Len(chunk_files) : Final(u)
              /\ failed_batches = FailedUnits
        /\ pc \in {"close", "done"} /\ ret.kind \notin {"ok", "none"} =>
              /\ ret.kind = "OSError"
              /\ idx = 0 /\ outcome = << >>

\* C3 witness: the first unit failed, the second one was still processed, and
\* process_batches returned normally.
C3_Witness ==
    /\ entry = "process_batches" /\ pc = "done" /\ ret.kind = "ok"
    /\ failed_batches = << 1 >> /\ processed_files = << 2 >>

\* Chunk files and units as sets.
AllChunks == RangeOf(chunk_files)
Deleted == AllChunks \ DOMAIN disk
Succeeded == {chunk_files[u] : u \in {v \in DOMAIN outcome : outcome[v] = "succeeded"}}
SucceededUnits == SelectSeq(chunk_files, LAMBDA p : outcome[p] = "succeeded")
PbReturned == InRun /\ pc \in {"close", "done"} /\ ret.kind = "ok"
RemovedOk == {removed[i].path : i \in {j \in 1 .. Len(removed) : removed[j].ok}}

C5_Sequential ==
    InRun /\ outcome # << >> =>
        /\ {u \in 1 .. idx : ~Final(u)} \subseteq {idx}
        /\ \A u \in 1 .. Len(chunk_files) : u > idx => outcome[u] = "pending"
        /\ \A u \in 1 .. (idx - 1) :
              chunk_files[u] \in RangeOf(processed_files) \cup RangeOf(failed_batches)
        /\ Len(processed_files) + Len(failed_batches) \in {idx - 1, idx}
        /\ reqs # {} => idx >= 1 /\ pc \notin {"loop", "cleanup", "close", "done"}

\* C5 witness: the second unit is in its polling loop after the first reached
\* Succeeded.
C5_Witness ==
    /\ InRun /\ idx = 2 /\ pc = "sleep"
    /\ outcome[1] = "succeeded" /\ outcome[2] = "pending"

\* C6: the remote system never holds two jobs created from the same uploaded
\* input, that is for the same work unit.
C6_OneJobPerUnit ==
    \A f \in 1 .. Len(srv_files) :
        Cardinality({j \in 1 .. Len(srv_jobs) : srv_jobs[j].input = f}) <= 1

\* C7: a directly called client operation that meets no failure from the
\* remote side or the filesystem returns its result after exactly one
\* attempt, having issued one request (download_batch_results: its status
\* fetch and its GET).
C7_FirstAttemptSucceeds ==
    entry \in ClientEntries /\ pc = "done" /\ ~env_fault =>
        /\ ret.kind = "ok"
        /\ ret.att = 1 /\ ret.datt = 1
        /\ nreq = IF entry = "download_batch_results" THEN 2 ELSE 1

\* The attempt limit of the client operation running at the current position.
Limit ==
    CASE pc = "upload" -> UploadAttempts
      [] pc = "create" -> CreateAttempts
      [] OTHER -> StatusAttempts

\* C8: upload, submit and poll make at most 5 attempts and download at most 3;
\* an httpx.RequestError reaches the caller only from the last allowed
\* attempt, as that attempt's own exception; and a unit it ends is on the
\* failure list once the handler has run.
C8_RetryBudget ==
    /\ pc \in {"upload", "create", "status", "poll", "dl_status"} => att < Limit
    /\ datt < DownloadAttempts
    /\ entry \in ClientEntries \ {"download_batch_results"} => nreq <= StatusAttempts
    /\ pc \in {"done", "except"} /\ ret.kind = "RequestError" =>
          IF entry = "download_batch_results" \/ reqs \cap DownloadKinds # {}
          THEN ret.datt = DownloadAttempts
          ELSE /\ ret.att = StatusAttempts
               /\ entry \in ClientEntries => nreq = StatusAttempts
    /\ InRun /\ pc \in {"loop", "cleanup"} =>
          \A u \in 1 .. idx :
              outcome[u] = "failed" => chunk_files[u] \in RangeOf(failed_batches)

\* C8 witness: inside a run, the fifth upload attempt failed with a
\* RequestError, which is now in process_batch's handler.
C8_Witness ==
    /\ entry = "process_batches" /\ pc = "except"
    /\ ret.kind = "RequestError" /\ ret.att = 5
    /\ reqs = {"upload"} /\ outcome[idx] = "failed"

\* ceil(n / k)
NumChunks(n, k) == (n + k - 1) \div k

RECURSIVE ConcatChunks(_, _)
ConcatChunks(d, n) == IF n = 0 THEN << >> ELSE ConcatChunks(d, n - 1) \o d[n]

\* C9: split_jsonl_file of N lines with chunk size k leaves ceil(N/k) chunk
\* files numbered 1..ceil(N/k) in order, each of k lines except a shorter,
\* non-empty last one, whose concatenation is the input; none for N = 0.
C9_SplitPartition ==
    entry = "cli" /\ split_returned /\ removed = << >> =>
        LET m == NumChunks(Len(infile), chunk_size)
        IN  /\ chunk_files = SeqOfInts(m)
            /\ DOMAIN disk = 1 .. m
            /\ \A i \in 1 .. m :
                  /\ Len(disk[i]) >= 1 /\ Len(disk[i]) <= chunk_size
                  /\ i < m => Len(disk[i]) = chunk_size
            /\ ConcatChunks(disk, m) = infile

\* C9 witness: 25 lines in chunks of 10 gave three files of 10, 10 and 5
\* lines.
C9_Witness ==
    /\ entry = "cli" /\ pc = "pb_start"
    /\ Len(infile) = 25 /\ chunk_size = 10
    /\ chunk_files = << 1, 2, 3 >>
    /\ Len(disk[1]) = 10 /\ Len(disk[2]) = 10 /\ Len(disk[3]) = 5

\* C10: the CLI run on 25 records with chunk size 10, with no failure from
\* the remote side or the filesystem, ends with three result files, one per
\* job, an empty failure list and no chunk file left.
C10_EndToEnd ==
    /\ entry = "cli" /\ pc = "done" /\ ~env_fault
    /\ Len(infile) = 25 /\ chunk_size = 10
    => /\ Cardinality(results) = 3
       /\ results = 1 .. Len(srv_jobs)
       /\ failed_batches = << >>
       /\ Len(processed_files) = 3
       /\ DOMAIN disk = {}

\* The exceptions a failed poll (get_batch_status) raises.
PollFailures == {"RequestError", "HTTPStatusError"}

\* C11: the polling loop has no timeout and no poll limit: a step taken inside
\* it stays with the same unit, which is neither Succeeded nor Failed; a sleep
\* is always followed by the next poll; and the loop is left only by a
\* terminal snapshot or by a failed poll, so that while the snapshots stay
\* non-terminal and the polls do not fail the unit stays in the loop, however
\* many polls there have been, and no later unit is started.
C11_PollsForever ==
    [][ InRun /\ pc \in {"poll", "sleep"} =>
          /\ outcome[idx] = "pending"
          /\ idx' = idx
          /\ \A u \in (idx + 1) .. Len(chunk_files) : outcome'[u] = "pending"
          /\ processed_files' = processed_files
          /\ failed_batches' = failed_batches
          /\ pc = "sleep" => pc' = "poll" /\ outcome' = outcome
          /\ pc' \notin {"poll", "sleep"} =>
                \/ pc = "poll" /\ status' \in Terminal
                \/ pc = "poll" /\ pc' = "except" /\ ret'.kind \in PollFailures
          /\ status' \notin Terminal /\ ret' = ret =>
                pc' \in {"poll", "sleep"} /\ outcome' = outcome
      ]_vars

\* C11 witness: the first of two units is about to be polled a third time
\* after two sleeps, its job still in progress; the second unit is untouched.
C11_Witness ==
    /\ InRun /\ pc = "poll" /\ idx = 1 /\ Len(chunk_files) = 2
    /\ npoll = 2 /\ nsleep = 2 /\ status = "in_progress"
    /\ outcome = << "pending", "pending" >>

\* The client was closed and nothing has been done with it since.
ClosedOnce == closed = 1 /\ pc = "done"

\* C12: in run_batch_processing the client is closed exactly once on every
\* exit path: it is open as long as the run is under way, closing is the last
\* thing the run does, whether the chunker raised, produced no chunk,
\* process_batches raised, or the units succeeded or failed; it is never
\* closed twice, and no step, hence no request, follows the close.
C12_ClosedExactlyOnce ==
    entry = "cli" =>
        /\ closed = IF pc = "done" THEN 1 ELSE 0
        /\ pc # "done" => ENABLED Next
        /\ ClosedOnce => ~ENABLED Next
        /\ reqs # {} => closed = 0

\* C12 witness: the chunker raised after writing a chunk file, and the run
\* ended with the client closed once.
C12_Witness ==
    /\ entry = "cli" /\ ClosedOnce
    /\ ~split_returned /\ ret.kind = "OSError" /\ DOMAIN disk = {1}

\* The paths os.remove was called on, in call order.
RemovedPaths == [i \in 1 .. Len(removed) |-> removed[i].path]

\* C13: clean_up_files, on any list of paths and with any deletions failing,
\* calls os.remove once per list entry in list order: at every point of its
\* loop the calls made so far are the entries passed so far; once it is over
\* the calls are the whole list and it returned without raising; and every
\* path whose os.remove did not fail is gone from disk.
C13_CleanupBestEffort ==
    /\ pc = "cleanup" =>
          /\ cidx <= Len(CleanupList)
          /\ RemovedPaths = SubSeq(CleanupList, 1, cidx)
    /\ pc \in {"close", "done"} => RemovedPaths = CleanupList
    /\ entry = "clean_up_files" /\ pc = "done" => ret.kind = "ok"
    /\ RemovedOk \cap DOMAIN disk = {}

\* C13 witness: of three paths the deletion of the first failed; the other
\* two were still deleted and clean_up_files returned.
C13_Witness ==
    /\ entry = "clean_up_files" /\ pc = "done" /\ ret.kind = "ok"
    /\ CleanupList = << 2, 1, 2 >>
    /\ removed = << [path |-> 2, ok |-> FALSE], [path |-> 1, ok |-> TRUE],
                    [path |-> 2, ok |-> TRUE] >>
    /\ DOMAIN disk = {}

\* The positions of the lines of the validated file that do not parse.
BadLines == {i \in 1 .. Len(disk[1]) : ~JsonLoads(disk[1][i])}

\* C14: validate_jsonl returns True exactly when every line of the file
\* parses as JSON; when it returns False it has read up to the first line
\* that does not parse and no further; when it returns True it has read
\* every line; and it returns True on every file csv_to_jsonl wrote.
C14_ValidateJsonl ==
    entry \in HelperEntries /\ pc = "done" /\ ret.kind = "ok" =>
        /\ ret.val = (BadLines = {})
        /\ ret.val => line_number = Len(disk[1])
        /\ ~ret.val => /\ line_number \in BadLines
                       /\ \A i \in BadLines : i >= line_number
        /\ entry = "csv_to_jsonl" => ret.val

\* C14 witness: a file of a JSON line, a line of plain text and a blank line
\* was found invalid at line 2; line 3 was not read.
C14_Witness ==
    /\ entry = "validate_jsonl" /\ pc = "done" /\ ret.kind = "ok"
    /\ disk[1] = << JsonLine(<< >>), TextLine, BlankLine >>
    /\ ret.val = FALSE /\ line_number = 2

\* A written line as json.loads reads it back: its keys, and a key's value.
KeysOf(line) == {line.pairs[i].k : i \in 1 .. Len(line.pairs)}
Lookup(line, key) ==
    line.pairs[CHOOSE i \in 1 .. Len(line.pairs) : line.pairs[i].k = key].v
\* The column a field name stands for when the header repeats it: the last.
LastColumn(header, name) ==
    CHOOSE j \in 1 .. Len(header) :
        header[j] = name /\ \A k \in (j + 1) .. Len(header) : header[k] # name
CsvReturned == entry = "csv_to_jsonl" /\ pc \in {"validate", "done"} /\ 1 \in DOMAIN disk

\* The rows DictReader yields: those after the header that are not blank lines.
DataRows == SelectSeq(Tail(infile), LAMBDA r : r # << >>)

\* C15 as stated: csv_to_jsonl writes one JSON line per data row (a blank
\* line not counted as one), in row order, each the object that maps every
\* header name to the row's cell in that column, as a string.
C15_OneLinePerRow ==
    CsvReturned =>
        LET header == infile[1]
            rows   == DataRows
            out    == disk[1]
        IN  /\ Len(out) = Len(rows)
            /\ \A i \in 1 .. Len(rows) :
                  /\ out[i].kind = "json"
                  /\ KeysOf(out[i]) = RangeOf(header)
                  /\ \A j \in 1 .. Len(header) :
                        /\ j <= Len(rows[i])
                        /\ Lookup(out[i], header[j]) = PyStr(rows[i][j])

\* C15 amended: csv_to_jsonl writes one JSON line per non-blank row after the
\* header, in row order.  The line is an object whose keys are the header
\* names; a name is mapped to the row's cell in its (last) column as a
\* string, or to null when the row is too short to have that cell; a row with
\* more cells than the header has names has one more key, "null", mapped to
\* the list of the surplus cells.
C15_OneLinePerNonBlankRow ==
    CsvReturned =>
        LET header == infile[1]
            rows   == DataRows
            out    == disk[1]
        IN  /\ Len(out) = Len(rows)
            /\ \A i \in 1 .. Len(rows) :
                  LET long == Len(rows[i]) > Len(header)
                  IN  /\ out[i].kind = "json"
                      /\ KeysOf(out[i]) =
                            RangeOf(header) \cup (IF long THEN {"null"} ELSE {})
                      /\ Len(out[i].pairs) = Cardinality(KeysOf(out[i]))
                      /\ \A name \in RangeOf(header) :
                            LET j == LastColumn(header, name)
                            IN  Lookup(out[i], name) =
                                  IF j <= Len(rows[i]) THEN PyStr(rows[i][j])
                                  ELSE PyNone
                      /\ long => Lookup(out[i], "null") =
                            PyList(SubSeq(rows[i], Len(header) + 1, Len(rows[i])))

\* C15 witness: a file of a header and two rows, the second one cell short,
\* gave two lines; the second maps the missing cell's name to null.
C15_Witness ==
    /\ CsvReturned
    /\ infile = << << "name", "age" >>, << "x", "y" >>, << "y" >> >>
    /\ disk[1] = << JsonLine(<< [k |-> "name", v |-> PyStr("x")],
                                [k |-> "age", v |-> PyStr("y")] >>),
                    JsonLine(<< [k |-> "name", v |-> PyStr("y")],
                                [k |-> "age", v |-> PyNone] >>) >>

\* C16: clean-up comes after every unit was attempted: as long as some unit of
\* the list is neither Succeeded nor Failed, os.remove has not been called and
\* every chunk file of the list is on disk; and once os.remove has been called
\* the loop over the units is over.
C16_CleanupAfterAllUnits ==
    InRun /\ outcome # << >> =>
        /\ (\E u \in 1 .. Len(chunk_files) : ~Final(u)) =>
              /\ removed = << >> /\ cidx = 0
              /\ AllChunks \subseteq DOMAIN disk
              /\ pc \notin {"cleanup", "close", "done"}
        /\ removed # << >> =>
              /\ pc \in {"cleanup", "close", "done"}
              /\ idx = Len(chunk_files)

\* C16 witness: both units succeeded; clean-up has deleted the first chunk
\* file and not yet the second.
C16_Witness ==
    /\ entry = "process_batches" /\ pc = "cleanup" /\ cidx = 1
    /\ outcome = << "succeeded", "succeeded" >>
    /\ removed = << [path |-> 1, ok |-> TRUE] >>
    /\ DOMAIN disk = {2}

\* C17: in the polling loop a snapshot whose status is not succeeded, failed
\* or cancelled (in_progress, an unknown string, no status field) sends the
\* loop to its sleep and nowhere else: the unit is past the loop only with
\* status succeeded, in the handler with a RuntimeError only with status
\* failed or cancelled; every poll but the first follows exactly one sleep
\* (the k-th snapshot is requested after k-1 sleeps), and every sleep follows
\* a non-terminal snapshot.
C17_NonTerminalSleeps ==
    InRun =>
        /\ pc = "poll" => npoll = nsleep
        /\ pc = "sleep" => npoll = nsleep + 1 /\ status \notin Terminal
        /\ pc \in {"dl_status", "dl_get", "returned"} =>
              status = "succeeded" /\ npoll = nsleep + 1
        /\ pc = "except" /\ ret.kind = "RuntimeError" =>
              status \in {"failed", "cancelled"} /\ npoll = nsleep + 1
        /\ pc = "except" /\ "poll" \in reqs /\ status \notin Terminal =>
              ret.kind \in PollFailures

\* C17 witness: the second snapshot had an unknown status string and the loop
\* is in its second sleep.
C17_Witness ==
    /\ InRun /\ pc = "sleep" /\ status = "unknown"
    /\ npoll = 2 /\ nsleep = 1

\* C18: a unit's failure rolls nothing back: neither the step that raises out
\* of the unit's lifecycle nor the handling of the exception in the loop
\* changes the result files written, the list of processed units, the chunk
\* files on disk or what the remote side holds; the handling appends the
\* unit's path, once, to the failure list and moves on.
C18_NoRollback ==
    [][ InRun /\ (pc = "except" \/ pc' = "except") =>
          /\ results' = results
          /\ processed_files' = processed_files
          /\ disk' = disk /\ removed' = removed
          /\ chunk_files' = chunk_files /\ idx' = idx
          /\ srv_files' = srv_files
          /\ pc' = "except" => failed_batches' = failed_batches
          /\ pc = "except" =>
                /\ failed_batches' = Append(failed_batches, chunk_files[idx])
                /\ pc' = "loop"
      ]_vars

\* C18 witness: the second unit failed after the first succeeded: the first
\* unit's result file and list entry and both chunk files are still there.
C18_Witness ==
    /\ entry = "process_batches" /\ pc = "loop" /\ idx = 2
    /\ outcome = << "succeeded", "failed" >>
    /\ results = {1} /\ processed_files = << 1 >> /\ failed_batches = << 2 >>
    /\ DOMAIN disk = {1, 2}

\* C19: every job was created from a payload that carries the file id the
\* upload of the creating unit returned, with the configured completion
\* window and endpoint; no uploaded file is the input of jobs of two units;
\* and the ids a unit's requests are made with are its own: past the upload
\* file_id is the id of this unit's chunk file, past the submit batch_id is a
\* job this unit created from that file, and no status or download request
\* is made without it.
C19_OwnIds ==
    InRun =>
        /\ \A j \in 1 .. Len(srv_jobs) :
              LET job == srv_jobs[j]
              IN  /\ job.input \in 1 .. Len(srv_files)
                  /\ srv_files[job.input] = chunk_files[job.unit]
                  /\ job.completion_window = "24h"
                  /\ job.endpoint = "/v1/completions"
        /\ \A j, k \in 1 .. Len(srv_jobs) :
              srv_jobs[j].input = srv_jobs[k].input =>
                  srv_jobs[j].unit = srv_jobs[k].unit
        /\ file_id # 0 => srv_files[file_id] = chunk_files[idx]
        /\ batch_id # 0 =>
              /\ srv_jobs[batch_id].unit = idx
              /\ srv_jobs[batch_id].input = file_id
        /\ pc = "create" => file_id # 0
        /\ pc \in {"poll", "sleep", "dl_status", "dl_get"} => batch_id # 0
        /\ reqs \cap {"poll", "dl_status", "dl_get"} # {} => batch_id # 0

\* C19 witness: the second unit is polling its own job, created from its own
\* upload, after the first unit uploaded, submitted and succeeded.
C19_Witness ==
    /\ InRun /\ idx = 2 /\ pc = "sleep" /\ outcome[1] = "succeeded"
    /\ file_id = 2 /\ batch_id = 2 /\ Len(srv_jobs) = 2
    /\ srv_jobs[2].input = 2 /\ srv_jobs[1].input = 1

\* The units that have a result file, and those whose job reported succeeded.
UnitsWithResult == {srv_jobs[j].unit : j \in results}
UnitsJobSucceeded ==
    {srv_jobs[j].unit : j \in {k \in 1 .. Len(srv_jobs) : srv_jobs[k].status = "succeeded"}}
\* The exceptions download_batch_results can end in.
DownloadFailures == {"ValueError", "HTTPStatusError", "RequestError", "OSError"}

\* C20: a unit is on the processed list, and its chunk file deleted, only if
\* its download completed (its result file was written); a unit whose job
\* reported succeeded and whose download failed (no output_file_url in the
\* snapshot, GET rejected, retries exhausted) is Failed, goes on the failure
\* list and not on the processed list, and its chunk file stays on disk.
C20_SuccessNeedsDownload ==
    InRun /\ outcome # << >> =>
        /\ \A u \in 1 .. Len(chunk_files) :
              /\ chunk_files[u] \in RangeOf(processed_files) \/ outcome[u] = "succeeded"
                    => u \in UnitsWithResult
              /\ chunk_files[u] \notin DOMAIN disk => u \in UnitsWithResult
        /\ pc = "except" /\ status = "succeeded" =>
              /\ ret.kind \in DownloadFailures
              /\ outcome[idx] = "failed" /\ idx \notin UnitsWithResult
        /\ \A u \in UnitsJobSucceeded \ UnitsWithResult :
              /\ outcome[u] # "succeeded"
              /\ chunk_files[u] \notin RangeOf(processed_files)
              /\ chunk_files[u] \in DOMAIN disk
              /\ (u < idx \/ pc \in {"loop", "cleanup", "close", "done"}) =>
                    /\ outcome[u] = "failed"
                    /\ chunk_files[u] \in RangeOf(failed_batches)

\* C20 witness: the first unit's job succeeded but its snapshot had no
\* output_file_url; the run ended with that unit on the failure list, its
\* chunk file kept, and only the second unit processed and deleted.
C20_Witness ==
    /\ entry = "process_batches" /\ pc = "done" /\ ret.kind = "ok"
    /\ Len(srv_jobs) = 2 /\ srv_jobs[1].status = "succeeded"
    /\ results = {2} /\ failed_batches = << 1 >> /\ processed_files = << 2 >>
    /\ DOMAIN disk = {1}

\* How often a path occurs in a list.
Count(list, p) == Cardinality({i \in 1 .. Len(list) : list[i] = p})

\* C21: when process_batches returns, the processed list and the failure list
\* partition the input list: together they have as many entries as the input
\* list, and every chunk file given is once on exactly one of them; each list
\* keeps the order of the input list.
C21_ListsPartition ==
    PbReturned =>
        /\ Len(processed_files) + Len(failed_batches) = Len(chunk_files)
        /\ \A u \in 1 .. Len(chunk_files) :
              Count(processed_files, chunk_files[u])
                  + Count(failed_batches, chunk_files[u]) = 1
        /\ RangeOf(processed_files) \cup RangeOf(failed_batches) = AllChunks
        /\ processed_files = SucceededUnits
        /\ failed_batches = FailedUnits

\* C21 witness: process_batches returned after two units that both
\* succeeded: both are on the processed list, none on the failure list.
C21_Witness ==
    /\ entry = "process_batches" /\ pc = "done" /\ ret.kind = "ok"
    /\ processed_files = << 1, 2 >> /\ failed_batches = << >>
    /\ outcome = << "succeeded", "succeeded" >>

\* Status requests issued by a directly called download_batch_results.
nstat == nreq - nget

\* C22: the retry budgets of download_batch_results nest.  One call issues at
\* most 3 result GETs and at most 3 x 5 = 15 status requests; a GET is only
\* issued right after a status fetch of the same attempt succeeded, at most
\* one per attempt; within an attempt the status fetch is tried up to 5
\* times; and when the call ends in a RequestError all 3 attempts were made,
\* each attempt that issued no GET having used up its 5 status requests.
C22_NestedRetries ==
    entry = "download_batch_results" =>
        /\ nget <= DownloadAttempts
        /\ nstat <= DownloadAttempts * StatusAttempts
        /\ pc = "dl_status" =>
              /\ nget <= datt
              /\ nstat <= StatusAttempts * datt + att
              /\ nstat >= StatusAttempts * (datt - nget) + nget + att
        /\ pc = "dl_get" =>
              /\ att = 0 /\ nget <= datt
              /\ nstat >= nget + 1
              /\ nstat >= StatusAttempts * (datt - nget) + nget + 1
        /\ pc = "done" /\ ret.kind = "RequestError" =>
              /\ ret.datt = DownloadAttempts
              /\ nstat >= StatusAttempts * (DownloadAttempts - nget) + nget
        /\ pc = "done" /\ ret.kind = "ok" => nget >= 1 /\ nstat >= nget

\* C22 witness: the status endpoint failed every time: the call ended in a
\* RequestError after 15 status requests and no GET.
C22_Witness ==
    /\ entry = "download_batch_results" /\ pc = "done"
    /\ ret.kind = "RequestError" /\ nget = 0 /\ nreq = 15

\* process_batches returned with every unit Succeeded or Failed and clean-up
\* performed on every processed file.
ReturnedClean ==
    /\ pc = "done" /\ ret.kind = "ok"
    /\ idx = Len(chunk_files)
    /\ \A u \in 1 .. Len(chunk_files) : Final(u)
    /\ cidx = Len(CleanupList) /\ RemovedPaths = CleanupList
\* process_batches raised out of ensure_directory, before any unit.
RaisedEarly ==
    /\ pc = "done" /\ ret.kind = "OSError"
    /\ idx = 0 /\ outcome = << >> /\ removed = << >>

\* C23 as stated: whenever process_batches has ended, every unit is Succeeded
\* or Failed and clean-up was performed.
C23_EndsClean ==
    pc = "done" => ReturnedClean

\* C23 amended: with every request answered and every job reaching a terminal
\* status, a call of process_batches on a finite list always ends: either it
\* returns with every unit Succeeded or Failed and clean-up performed, or
\* ensure_directory raised before any unit was attempted.
C23_Terminates ==
    (pc = "pb_start") ~> (ReturnedClean \/ RaisedEarly)

\* C23 witness: process_batches returned after its unit succeeded on a job
\* that another, lost, submit had duplicated, and clean-up deleted the chunk
\* file.
C23_Witness ==
    /\ ReturnedClean
    /\ outcome = << "succeeded" >> /\ Len(srv_jobs) = 2
    /\ removed = << [path |-> 1, ok |-> TRUE] >>

====
